---- MODULE Spec2Model ----
(***************************************************************************)
(* Live dashboard notification layer of the interview backend:            *)
(* WebSocketService (src/src/websockets/socket.service.ts) together with  *)
(* the collaborators it calls, TokenUtils.getDataFromToken and            *)
(* InterviewService.getCandidateTranscript.                               *)
(*                                                                         *)
(* Every handler of the service runs on one event loop.  An action of the *)
(* model is one run of a handler from an event (or from the completion of *)
(* an awaited database call) to its next await or to its return.          *)
(***************************************************************************)
EXTENDS Integers, Sequences, FiniteSets, TLC

(* ------------------------------ bounds -------------------------------- *)
\* number of client connections the server accepts
MaxConns == 2
\* number of inbound messages the clients send, over all connections
MaxMsgs == 2

\* number of connections whose upgrade request is not an owner asking for
\* an interview of theirs
MaxRejects == 1

\* number of disturbances of a run: failures of a database call, deletions
\* of an interview and calls of shutdown
MaxFaults == 1
\* the load of a run: connections accepted plus inbound messages sent
MaxLoad == 3

\* number of documents of the Transcript collection
MaxTranscripts == 5
\* largest num_questions of an interview
MaxQuestions == 5

Conns == 1..MaxConns
MsgIds == 1..MaxMsgs
TranscriptIds == 1..MaxTranscripts

(* ------------------------------ values -------------------------------- *)
\* JavaScript null (URLSearchParams.get of an absent parameter, findById of
\* an absent document)
Null == "null"
\* a token payload without _id
NoId == "noid"

Users == {"uA", "uB"}
Interviews == {"i1", "i2"}
Candidates == {"k1", "k2", "k3"}
\* the candidates whose details the clients ask for
AskedCandidates == {"k1", "k2"}
Statuses == {"Scheduled", "Completed", "Cancelled", "In Progress"}

\* the interviews that are deleted while the service runs
Deletable == {"i1"}

\* the interview a candidate document belongs to (candidate.interview_id)
CandidateInterview(k) == IF k = "k2" THEN "i2" ELSE "i1"

\* a Transcript document: its candidate_id and its submitted_at (null until
\* the answer is submitted); NoTranscript is a document that does not exist
TranscriptDocs ==
  [candidate_id : Candidates, submitted_at : {Null, "date"}]
NoTranscript == [candidate_id |-> Null, submitted_at |-> Null]

\* The `token` query parameter is absent (Null), empty, a string jwt.verify
\* rejects ("bad"), a signed payload without _id ("noid"), or the token of
\* a user.  The `interviewId` parameter is absent, empty, a string that is no
\* ObjectId ("malformed": findById rejects with a CastError), a well-formed
\* id of no document ("ghost"), or the id of an interview.
\* the upgrade requests: req.url makes `new URL` throw, or it parses and
\* a parameter is missing, or the token is no user's, or a user asks for an
\* interview id
Requests ==
  {[urlOk |-> FALSE, token |-> Null, interviewId |-> Null]} \cup
  {[urlOk |-> TRUE, token |-> Null, interviewId |-> i] : i \in {Null, "i1"}} \cup
  {[urlOk |-> TRUE, token |-> "tokA", interviewId |-> i] : i \in {Null, ""}} \cup
  {[urlOk |-> TRUE, token |-> t, interviewId |-> "i1"] : t \in {"", "bad", "noid"}} \cup
  {[urlOk |-> TRUE, token |-> "tokA", interviewId |-> i] :
      i \in {"malformed", "ghost"} \cup Interviews} \cup
  {[urlOk |-> TRUE, token |-> "tokB", interviewId |-> i] : i \in Interviews}
OwnerRequests ==
  {[urlOk |-> TRUE, token |-> "tokA", interviewId |-> "i1"],
   [urlOk |-> TRUE, token |-> "tokB", interviewId |-> "i2"]}
NoRequest == [urlOk |-> FALSE, token |-> "-", interviewId |-> "-"]

\* close codes and reasons passed to ws.close
NoClose == <<0, "">>
CloseMissing == <<1008, "Missing token or interviewId">>
CloseInvalidToken == <<1008, "Invalid authentication token">>
CloseNotFound == <<1008, "Interview not found">>
CloseUnauthorized == <<1008, "Unauthorized access to this interview">>
CloseHandshake == <<1011, "Internal server error during handshake">>
CloseShutdown == <<1001, "Server shutting down">>

VARIABLES
  wss,             \* the WebSocketServer: "null", "listening", "closed"
  interviewRooms,  \* Map<string, Set<ExtWebSocket>>
  db,              \* the Interview collection, by interview id (the rest of
                   \* the backend writes the status of a document at any
                   \* time: a read of it yields any status)
  pc,              \* per connection: where handleConnection is suspended
  req,             \* per connection: the upgrade request
  readyState,      \* per connection: ws.readyState
  closeCall,       \* per connection: the (code, reason) handleConnection
                   \* passed to ws.close
  wsInterviewerId, \* per connection: ws.interviewerId
  wsInterviewId,   \* per connection: ws.interviewId
  listeners,       \* per connection: setupSignalHandlers has run
  steps,           \* per connection: the calls handleConnection has made so far
  fetched,         \* per connection: what the admission's findById returned
  snap,            \* per connection: sendInitialDashboardData's locals, outcome
  outbox,          \* per connection: the messages passed to ws.send, in order
  msgs,            \* the inbound messages in order of arrival, their handling
  faults,          \* the disturbances so far
  closeFrame,      \* per connection: the (code, reason) of the close frame the
                   \* server sent, that of the ws.close call that found it open
  transcripts,     \* the Transcript collection, by document
  isAlive          \* per connection: ws.isAlive, the heartbeat flag

vars == <<wss, interviewRooms, db, pc, req, readyState, closeCall,
          wsInterviewerId, wsInterviewId, listeners, steps, fetched, snap,
          outbox, msgs, faults, closeFrame, transcripts, isAlive>>


(* --------------------------- collaborators ---------------------------- *)
\* jwt.verify inside TokenUtils.getDataFromToken: the payload a token is
\* signed over, or a rejection
JwtVerify(token) ==
  CASE token = "tokA" -> [threw |-> FALSE, id |-> "uA"]
    [] token = "tokB" -> [threw |-> FALSE, id |-> "uB"]
    [] token = "noid" -> [threw |-> FALSE, id |-> NoId]
    [] OTHER -> [threw |-> TRUE, id |-> NoId]

\* TokenUtils.getDataFromToken: returns the decoded payload; a rejection by
\* jwt.verify is caught and rethrown as UnauthorizedError
getDataFromToken(token) == JwtVerify(token)

NoDoc == [kind |-> "none", interviewerId |-> "-"]
\* InterviewModel.findById(id): a rejection (a CastError for a string that is
\* no ObjectId, or a failure of the database when ~dbOk), null, or the document
findById(id, dbOk) ==
  IF ~dbOk \/ id = "malformed"
    THEN [kind |-> "throw", interviewerId |-> "-"]
  ELSE IF id \in Interviews /\ db[id].present
    THEN [kind |-> "doc", interviewerId |-> db[id].interviewerId]
  ELSE [kind |-> Null, interviewerId |-> "-"]

(* ------------------------------ helpers ------------------------------- *)
DbCallExclusive(dbOk) ==
  /\ dbOk \/ faults < MaxFaults
  /\ faults' = IF dbOk THEN faults ELSE faults + 1
  /\ Cardinality({c \in Conns : pc[c] \in {"lookup", "snap1", "snap2", "snap3"}})
       + Cardinality({id \in DOMAIN msgs : msgs[id].st \in {"lk1", "lk2", "lk3"}}) <= 1
\* an awaited database call completes: it fails when ~dbOk
DbCall(dbOk) ==
  /\ dbOk \/ faults < MaxFaults
  /\ faults' = IF dbOk THEN faults ELSE faults + 1

\* ws.close(code, reason) of the ws library: starts the closing handshake of
\* an open socket, and does nothing on one that is closing or closed
WsCloseState(c) == IF readyState[c] = "OPEN" THEN "CLOSING" ELSE readyState[c]

SendTwiceIfOpen(c, m) ==
  IF readyState[c] = "OPEN" THEN Append(Append(outbox[c], m), m) ELSE outbox[c]
SendAlways(c, m) == Append(outbox[c], m)
\* `if (ws.readyState === WebSocket.OPEN) ws.send(...)`: the connection's
\* outbox after the guarded send
SendIfOpen(c, m) ==
  IF readyState[c] = "OPEN" THEN Append(outbox[c], m) ELSE outbox[c]

MissingParamsTokenOnly(r) == r.token \in {Null, ""}
\* line 108: `!token || !interviewId`
MissingParams(r) == r.token \in {Null, ""} \/ r.interviewId \in {Null, ""}

\* line 115: `!decoded || !decoded._id`
NoSubject(decoded) == decoded.id = NoId

NotOwnerInverted(doc, decoded) == doc.interviewerId = decoded.id
NotOwnerUnchecked(doc, decoded) == FALSE
\* line 128: `interview.interviewerId.toString() !== decoded._id.toString()`
NotOwner(doc, decoded) == doc.interviewerId # decoded.id

HandshakeCatchLogsOnly == NoClose
\* the catch of handleConnection, lines 144-147
HandshakeCatchClose == CloseHandshake

joinRoomReplaces(rooms, interviewId, c) ==
  [i \in DOMAIN rooms \cup {interviewId} |->
     IF i = interviewId THEN {c} ELSE rooms[i]]
joinRoomEvery(rooms, interviewId, c) ==
  [i \in DOMAIN rooms \cup {interviewId} |->
     (IF i \in DOMAIN rooms THEN rooms[i] ELSE {}) \cup {c}]
\* joinRoom, lines 250-255: the registry after the join
joinRoom(rooms, interviewId, c) ==
  [i \in DOMAIN rooms \cup {interviewId} |->
     IF i = interviewId
       THEN (IF i \in DOMAIN rooms THEN rooms[i] ELSE {}) \cup {c}
       ELSE rooms[i]]

leaveRoomKeepsEmpty(rooms, interviewId, c) ==
  IF interviewId \in DOMAIN rooms
    THEN [i \in DOMAIN rooms |->
            IF i = interviewId THEN rooms[i] \ {c} ELSE rooms[i]]
    ELSE rooms

leaveRoomDeletesRoom(rooms, interviewId, c) ==
  [i \in DOMAIN rooms \ {interviewId} |-> rooms[i]]
\* leaveRoom, lines 268-277: the registry after the leave
leaveRoom(rooms, interviewId, c) ==
  IF interviewId \in DOMAIN rooms
    THEN IF rooms[interviewId] \ {c} = {}
           THEN [i \in DOMAIN rooms \ {interviewId} |-> rooms[i]]
           ELSE [i \in DOMAIN rooms |->
                   IF i = interviewId THEN rooms[i] \ {c} ELSE rooms[i]]
    ELSE rooms

NoSnap ==
  [interview |-> "none", res |-> "pending", candidates |-> {}, progress |-> <<>>]

(* ------------------------------- Init --------------------------------- *)
Init ==
  /\ wss = "null"
  /\ interviewRooms = [i \in {} |-> {}]
  /\ db = [i \in Interviews |->
             [present |-> TRUE, interviewerId |-> IF i = "i1" THEN "uA" ELSE "uB",
              num_questions |-> MaxQuestions]]
  /\ pc = [c \in Conns |-> "idle"]
  /\ req = [c \in Conns |-> NoRequest]
  /\ readyState = [c \in Conns |-> "CONNECTING"]
  /\ closeCall = [c \in Conns |-> NoClose]
  /\ wsInterviewerId = [c \in Conns |-> "undefined"]
  /\ wsInterviewId = [c \in Conns |-> "undefined"]
  /\ listeners = [c \in Conns |-> FALSE]
  /\ steps = [c \in Conns |-> {}]
  /\ fetched = [c \in Conns |-> NoDoc]
  /\ snap = [c \in Conns |-> NoSnap]
  /\ outbox = [c \in Conns |-> <<>>]
  /\ msgs = <<>>
  /\ faults = 0
  /\ closeFrame = [c \in Conns |-> NoClose]
  /\ transcripts = [t \in TranscriptIds |-> NoTranscript]
  /\ isAlive = [c \in Conns |-> FALSE]

(* ----------------------------- lifecycle ------------------------------ *)
\* initialize(wssInstance), lines 70-77
initialize ==
  /\ wss = "null"
  /\ wss' = "listening"
  /\ UNCHANGED <<interviewRooms, db, pc, req, readyState, closeCall,
                 wsInterviewerId, wsInterviewId, listeners, steps, fetched,
                 snap, outbox, msgs, faults, closeFrame, transcripts,
                 isAlive>>

shutdownClientsNone == {}
\* lines 163-167: the clients shutdown closes, those of wss.clients that are open
shutdownClients == {c \in Conns : readyState[c] = "OPEN"}

clearRoomsKeepsKeys(rooms) == [i \in DOMAIN rooms |-> {}]
\* line 172: this.interviewRooms.clear()
clearRooms(rooms) == [i \in {} |-> {}]

\* shutdown(), lines 160-174: closes every open client with 1001, closes the
\* server, clears the registry, and returns; the closing handshakes complete
\* later
shutdown ==
  /\ wss # "null"
  /\ faults < MaxFaults
  /\ faults' = faults + 1
  /\ readyState' = [c \in Conns |->
                      IF c \in shutdownClients THEN WsCloseState(c) ELSE readyState[c]]
  /\ closeFrame' = [c \in Conns |->
                      IF c \in shutdownClients THEN CloseShutdown ELSE closeFrame[c]]
  /\ wss' = "closed"
  /\ interviewRooms' = clearRooms(interviewRooms)
  /\ UNCHANGED <<db, pc, req, closeCall, wsInterviewerId, wsInterviewId,
                 listeners, steps, fetched, snap, outbox, msgs, transcripts,
                 isAlive>>

(* ----------------------------- admission ------------------------------ *)
\* The outcome of handleConnection's run up to its first await (lines
\* 100-121): the close it calls, if any, and the calls it has made.
handleConnectionSync(r) ==
  IF ~r.urlOk
    THEN [pc |-> "done", close |-> HandshakeCatchClose, steps |-> {"catch"}]
  ELSE IF MissingParams(r)
    THEN [pc |-> "done", close |-> CloseMissing, steps |-> {}]
  ELSE IF getDataFromToken(r.token).threw
    THEN [pc |-> "done", close |-> HandshakeCatchClose,
          steps |-> {"verify", "catch"}]
  ELSE IF NoSubject(getDataFromToken(r.token))
    THEN [pc |-> "done", close |-> CloseInvalidToken, steps |-> {"verify"}]
  ELSE [pc |-> "lookup", close |-> NoClose, steps |-> {"verify", "lookup"}]

\* The 'connection' event: handleConnection(ws, req) runs to its first await.
\* Connections are numbered in the order the server accepts them.
Connect(c, r) ==
  /\ wss = "listening"
  /\ pc[c] = "idle"
  /\ \A b \in Conns : b < c => pc[b] # "idle"
  /\ Cardinality({b \in Conns : pc[b] # "idle"}) + Len(msgs) < MaxLoad
  /\ \/ r \in OwnerRequests
     \/ Cardinality({b \in Conns : pc[b] # "idle" /\ req[b] \notin OwnerRequests})
          < MaxRejects
  /\ LET o == handleConnectionSync(r) IN
       /\ pc' = [pc EXCEPT ![c] = o.pc]
       /\ steps' = [steps EXCEPT ![c] = o.steps]
       /\ closeCall' = [closeCall EXCEPT ![c] = o.close]
       /\ readyState' = [readyState EXCEPT ![c] =
                           IF o.close = NoClose THEN "OPEN" ELSE "CLOSING"]
       /\ closeFrame' = [closeFrame EXCEPT ![c] = o.close]
  /\ req' = [req EXCEPT ![c] = r]
  /\ isAlive' = [isAlive EXCEPT ![c] = TRUE]
  /\ UNCHANGED <<wss, interviewRooms, db, wsInterviewerId, wsInterviewId,
                 listeners, fetched, snap, outbox, msgs, faults, transcripts>>

handleConnectionLookupNoNullCheck(doc, decoded) ==
  IF doc.kind \in {"throw", Null}
    THEN [admit |-> FALSE, close |-> HandshakeCatchClose, steps |-> {"catch"}]
  ELSE IF NotOwner(doc, decoded)
    THEN [admit |-> FALSE, close |-> CloseUnauthorized, steps |-> {}]
  ELSE [admit |-> TRUE, close |-> NoClose,
        steps |-> {"bind", "join", "handlers", "snapshot"}]
\* The outcome of handleConnection's second run, from the completion of
\* `await InterviewModel.findById(interviewId)` (line 121) to the call of
\* sendInitialDashboardData (line 142) or to a close.
handleConnectionLookup(doc, decoded) ==
  IF doc.kind = "throw"
    THEN [admit |-> FALSE, close |-> HandshakeCatchClose, steps |-> {"catch"}]
  ELSE IF doc.kind = Null
    THEN [admit |-> FALSE, close |-> CloseNotFound, steps |-> {}]
  ELSE IF NotOwner(doc, decoded)
    THEN [admit |-> FALSE, close |-> CloseUnauthorized, steps |-> {}]
  ELSE [admit |-> TRUE, close |-> NoClose,
        steps |-> {"bind", "join", "handlers", "snapshot"}]

AdmissionLookup(c, dbOk) ==
  /\ pc[c] = "lookup"
  /\ DbCall(dbOk)
  /\ LET doc == findById(req[c].interviewId, dbOk)
         decoded == getDataFromToken(req[c].token)
         o == handleConnectionLookup(doc, decoded)
     IN
       /\ fetched' = [fetched EXCEPT ![c] = doc]
       /\ steps' = [steps EXCEPT ![c] = @ \cup o.steps]
       /\ closeCall' = [closeCall EXCEPT ![c] = o.close]
       /\ IF o.admit
            THEN /\ wsInterviewerId' = [wsInterviewerId EXCEPT ![c] = decoded.id]
                 /\ wsInterviewId' = [wsInterviewId EXCEPT ![c] = req[c].interviewId]
                 /\ interviewRooms' = joinRoom(interviewRooms, req[c].interviewId, c)
                 /\ listeners' = [listeners EXCEPT ![c] = TRUE]
                 /\ pc' = [pc EXCEPT ![c] = "snap1"]
                 /\ UNCHANGED <<readyState, closeFrame>>
            ELSE /\ readyState' = [readyState EXCEPT ![c] =
                                     IF o.close = NoClose THEN @ ELSE WsCloseState(c)]
                 /\ closeFrame' = [closeFrame EXCEPT ![c] =
                                     IF readyState[c] = "OPEN" THEN o.close ELSE @]
                 /\ pc' = [pc EXCEPT ![c] = "done"]
                 /\ UNCHANGED <<wsInterviewerId, wsInterviewId, interviewRooms,
                                listeners>>
  /\ UNCHANGED <<wss, db, req, snap, outbox, msgs, transcripts, isAlive>>

(* ------------------------------ snapshot ------------------------------ *)
ErrDashboard == [event |-> "error", msg |-> 0, text |-> "Failed to load dashboard data"]
DashboardInit == [event |-> "dashboard:init", msg |-> 0, text |-> ""]

\* line 191: CandidateModel.find({ interview_id: interviewId }), the
\* candidates of the interview (they exist while the interview does)
findCandidates(interviewId) ==
  {k \in Candidates : CandidateInterview(k) = interviewId /\ db[interviewId].present}

aggregateCountsAll(coll, candidateIds) ==
  LET matched == {t \in TranscriptIds : coll[t].candidate_id \in candidateIds}
  IN [k \in {coll[t].candidate_id : t \in matched} |->
        Cardinality({t \in matched : coll[t].candidate_id = k})]
\* lines 196-204: TranscriptModel.aggregate, $match of the transcripts of
\* candidateIds whose submitted_at is not null, $group by candidate_id with
\* $count, collected in progressMap
aggregate(coll, candidateIds) ==
  LET matched == {t \in TranscriptIds : /\ coll[t].candidate_id \in candidateIds
                                        /\ coll[t].submitted_at # Null}
  IN [k \in {coll[t].candidate_id : t \in matched} |->
        Cardinality({t \in matched : coll[t].candidate_id = k})]

\* line 211: `${progressMap.get(candidate._id.toString()) || 0}/${interview.num_questions}`
progress(progressMap, k, num_questions) ==
  ToString(IF k \in DOMAIN progressMap /\ progressMap[k] # 0 THEN progressMap[k] ELSE 0)
    \o "/" \o ToString(num_questions)

\* lines 195-212: candidatePayload, the progress of each candidate found
candidatePayload(candidates, coll, num_questions) ==
  [k \in candidates |-> progress(aggregate(coll, candidates), k, num_questions)]

SnapshotCatchSilent(c) ==
  /\ UNCHANGED outbox
  /\ snap' = [snap EXCEPT ![c].res = "failed"]
  /\ pc' = [pc EXCEPT ![c] = "done"]
\* the catch of sendInitialDashboardData, lines 231-236; handleConnection
\* then returns
SnapshotCatch(c) ==
  /\ outbox' = [outbox EXCEPT ![c] = SendIfOpen(c, ErrDashboard)]
  /\ snap' = [snap EXCEPT ![c].res = "failed"]
  /\ pc' = [pc EXCEPT ![c] = "done"]

\* completion of `await InterviewModel.findById(interviewId).lean()`, line 190
SnapshotInterview(c, dbOk) ==
  /\ pc[c] = "snap1"
  /\ DbCall(dbOk)
  /\ LET doc == findById(wsInterviewId[c], dbOk) IN
       IF doc.kind = "throw"
         THEN SnapshotCatch(c)
         ELSE /\ snap' = [snap EXCEPT ![c].interview = doc.kind]
              /\ pc' = [pc EXCEPT ![c] = "snap2"]
              /\ UNCHANGED outbox
  /\ UNCHANGED <<wss, interviewRooms, db, req, readyState, closeCall,
                 wsInterviewerId, wsInterviewId, listeners, steps, fetched,
                 msgs, closeFrame, transcripts, isAlive>>

\* completion of `await CandidateModel.find(...).lean()`, line 191, and the
\* `if (!interview) return` of line 193
SnapshotCandidates(c, dbOk) ==
  /\ pc[c] = "snap2"
  /\ DbCall(dbOk)
  /\ IF ~dbOk
       THEN SnapshotCatch(c)
       ELSE IF snap[c].interview = Null
         THEN /\ snap' = [snap EXCEPT ![c].res = "absent",
                                      ![c].candidates = findCandidates(wsInterviewId[c])]
              /\ pc' = [pc EXCEPT ![c] = "done"]
              /\ UNCHANGED outbox
         ELSE /\ snap' = [snap EXCEPT
                            ![c].candidates = findCandidates(wsInterviewId[c])]
              /\ pc' = [pc EXCEPT ![c] = "snap3"]
              /\ UNCHANGED outbox
  /\ UNCHANGED <<wss, interviewRooms, db, req, readyState, closeCall,
                 wsInterviewerId, wsInterviewId, listeners, steps, fetched,
                 msgs, closeFrame, transcripts, isAlive>>

\* completion of `await TranscriptModel.aggregate(...)`, line 196, the
\* payload of lines 201-225 (num_questions is the one of the interview
\* document, which nothing updates) and the send of lines 227-229
SnapshotAggregate(c, dbOk) ==
  /\ pc[c] = "snap3"
  /\ DbCall(dbOk)
  /\ IF ~dbOk
       THEN SnapshotCatch(c)
       ELSE /\ outbox' = [outbox EXCEPT ![c] = SendIfOpen(c, DashboardInit)]
            /\ snap' = [snap EXCEPT
                         ![c].res = "built",
                         ![c].progress =
                            candidatePayload(snap[c].candidates, transcripts,
                                             db[wsInterviewId[c]].num_questions)]
            /\ pc' = [pc EXCEPT ![c] = "done"]
  /\ UNCHANGED <<wss, interviewRooms, db, req, readyState, closeCall,
                 wsInterviewerId, wsInterviewId, listeners, steps, fetched,
                 msgs, closeFrame, transcripts, isAlive>>

(* ------------------------------- close -------------------------------- *)
\* The transport closes the connection (the client disconnects, or the
\* closing handshake the server started completes) and emits 'close'; the
\* listener of lines 295-300 runs if it is attached.
CloseEvent(c) ==
  /\ readyState[c] \in {"OPEN", "CLOSING"}
  /\ readyState' = [readyState EXCEPT ![c] = "CLOSED"]
  /\ interviewRooms' =
       IF listeners[c] /\ wsInterviewId[c] # "undefined"
         THEN leaveRoom(interviewRooms, wsInterviewId[c], c)
         ELSE interviewRooms
  /\ steps' = [steps EXCEPT ![c] = IF listeners[c] THEN @ \cup {"closed"} ELSE @]
  /\ UNCHANGED <<wss, db, pc, req, closeCall, wsInterviewerId, wsInterviewId,
                 listeners, fetched, snap, outbox, msgs, faults, closeFrame,
                 transcripts, isAlive>>

(* ------------------------- pong and error ----------------------------- *)
PongClearsBinding(c) ==
  /\ listeners[c]
  /\ readyState[c] \in {"OPEN", "CLOSING"}
  /\ wsInterviewId' = [wsInterviewId EXCEPT ![c] = "undefined"]
  /\ UNCHANGED <<wss, interviewRooms, db, pc, req, readyState, closeCall,
                 wsInterviewerId, listeners, steps, fetched, snap, outbox,
                 msgs, faults, closeFrame, transcripts, isAlive>>
\* The 'pong' event, lines 306-308: the listener sets the heartbeat flag
\* (which line 100 has set, and nothing clears).
Pong(c) ==
  /\ listeners[c]
  /\ readyState[c] \in {"OPEN", "CLOSING"}
  /\ isAlive' = [isAlive EXCEPT ![c] = TRUE]
  /\ UNCHANGED <<wss, interviewRooms, db, pc, req, readyState, closeCall,
                 wsInterviewerId, wsInterviewId, listeners, steps, fetched,
                 snap, outbox, msgs, faults, closeFrame, transcripts>>

\* The 'error' event, lines 302-304: the listener logs the error.
ErrorEvent(c) ==
  /\ listeners[c]
  /\ readyState[c] \in {"OPEN", "CLOSING"}
  /\ UNCHANGED vars

(* ----------------------------- persistence ---------------------------- *)
\* InterviewService.deleteInterview commits: the interview, its candidates
\* and their transcripts (deleteMany, line 467) are gone
DeleteInterview(i) ==
  /\ i \in Deletable
  /\ db[i].present
  /\ faults < MaxFaults
  /\ faults' = faults + 1
  /\ db' = [db EXCEPT ![i].present = FALSE]
  /\ transcripts' = [t \in TranscriptIds |->
                       IF /\ transcripts[t] # NoTranscript
                          /\ CandidateInterview(transcripts[t].candidate_id) = i
                         THEN NoTranscript ELSE transcripts[t]]
  /\ UNCHANGED <<wss, interviewRooms, pc, req, readyState, closeCall,
                 wsInterviewerId, wsInterviewId, listeners, steps, fetched,
                 snap, outbox, msgs, closeFrame, isAlive>>

(* ------------------------------ messages ------------------------------ *)
\* What a client can send: data that is no JSON, the JSON text `null` (whose
\* `.event` cannot be read), a message with another event tag (the declared
\* tag "ping", an unknown tag, no tag), and `request:candidate_details` with
\* a payload.  The
\* payload's candidateId is absent or a candidate's (a candidate is gone
\* once its interview is deleted);
\* `claim` is an interviewId (with its owner as interviewerId) the client
\* puts in the payload beside it: none, or the candidate's own interview.
InboundMessages ==
  {[kind |-> k, cand |-> Null, claim |-> Null] :
     k \in {"nonjson", "jsonnull", "ping", "unknown", "notag"}}
  \cup {[kind |-> "request", cand |-> k, claim |-> Null] :
          k \in {Null} \cup AskedCandidates}
  \cup {[kind |-> "request", cand |-> k, claim |-> CandidateInterview(k)] :
          k \in AskedCandidates}

\* connections accepted plus messages sent so far
Load == Cardinality({c \in Conns : pc[c] # "idle"}) + Len(msgs)

NoArgs == [interviewId |-> "-", interviewerId |-> "-"]

ErrInvalid(id) == [event |-> "error", msg |-> id, text |-> "Invalid message format"]
ErrDetailsAsResponse(id, why) ==
  [event |-> "response:candidate_details", msg |-> id, text |-> why]
\* lines 378-381: the error of the catch of handleCandidateDetailsRequest,
\* "Could not load candidate details: <error.message>"
ErrDetails(id, why) == [event |-> "error", msg |-> id, text |-> why]
Response(id, cand) == [event |-> "response:candidate_details", msg |-> id, text |-> cand]

HasMessageListenerOnAccept(c) == pc[c] # "idle"
HasMessageListenerAlways(c) == TRUE
\* line 138 and lines 310-332: the 'message' listener is attached once the
\* admission has passed its checks
HasMessageListener(c) == listeners[c]

RequesterRoomMate(m) ==
  IF \E b \in Conns : b # m.conn /\ listeners[b]
    THEN CHOOSE b \in Conns : b # m.conn /\ listeners[b]
    ELSE m.conn
\* the socket a handler of message m sends on: the `ws` its listener closes over
Requester(m) == m.conn

LookupArgsFromPayload(c, m) ==
  IF m.claim # Null
    THEN [interviewId |-> m.claim, interviewerId |-> db[m.claim].interviewerId]
    ELSE [interviewId |-> wsInterviewId[c], interviewerId |-> wsInterviewerId[c]]
\* lines 360-364: the arguments handleCandidateDetailsRequest passes to
\* interviewService.getCandidateTranscript
LookupArgs(c, m) ==
  [interviewId |-> wsInterviewId[c], interviewerId |-> wsInterviewerId[c]]

\* a handler of message id finishes with the guarded send of `out`
Reply(id, out, res) ==
  LET c == Requester(msgs[id]) IN
    /\ outbox' = [outbox EXCEPT ![c] = SendIfOpen(c, out)]
    /\ msgs' = [msgs EXCEPT ![id].st = "done", ![id].res = res]

MissingCandidateIdUnchecked(m) == FALSE
\* lines 353-356: `!candidateId` for payload?.candidateId
MissingCandidateId(m) == m.cand = Null

ParsesUnlessNonJson(m) == m.kind # "nonjson"
\* lines 312-314: JSON.parse(data.toString()) returns and message.event can
\* be read
Parses(m) == m.kind \notin {"nonjson", "jsonnull"}

IsCandidateDetailsOrPing(m) == m.kind \in {"request", "ping"}
\* lines 314-315: the switch dispatches the one tag it has a case for
IsCandidateDetails(m) == m.kind = "request"

\* The 'message' event: with no listener attached the message is lost;
\* otherwise the listener of lines 310-332 runs to its first await.
ClientSend(c, m) ==
  /\ Len(msgs) < MaxMsgs
  /\ Load < MaxLoad
  /\ readyState[c] \in {"OPEN", "CLOSING"}
  /\ LET id == Len(msgs) + 1
         new == [conn |-> c, kind |-> m.kind, cand |-> m.cand,
                 early |-> pc[c] = "lookup", st |-> "done", res |-> "-",
                 args |-> NoArgs]
     IN
       IF ~HasMessageListener(c)
         THEN /\ msgs' = Append(msgs, [new EXCEPT !.st = "dropped", !.kind = "unread",
                                                  !.cand = Null])
              /\ UNCHANGED outbox
       ELSE IF ~Parses(m)
         THEN /\ msgs' = Append(msgs, [new EXCEPT !.res = "invalid"])
              /\ outbox' = [outbox EXCEPT ![c] = SendIfOpen(c, ErrInvalid(id))]
       ELSE IF ~IsCandidateDetails(m)
         THEN /\ msgs' = Append(msgs, [new EXCEPT !.res = "ignored"])
              /\ UNCHANGED outbox
       ELSE IF MissingCandidateId(m)
         THEN /\ msgs' = Append(msgs, [new EXCEPT !.res = "missing"])
              /\ outbox' = [outbox EXCEPT ![c] =
                   SendIfOpen(c, ErrDetails(id, "candidateId missing from payload"))]
       ELSE /\ msgs' = Append(msgs, [new EXCEPT !.st = "lk1",
                                                !.args = LookupArgs(c, m)])
            /\ UNCHANGED outbox
  /\ UNCHANGED <<wss, interviewRooms, db, pc, req, readyState, closeCall,
                 wsInterviewerId, wsInterviewId, listeners, steps, fetched,
                 snap, faults, closeFrame, transcripts, isAlive>>

InterviewCheckNoStatus(doc, status, interviewerId) ==
  IF doc.kind = "throw" THEN "Error"
  ELSE IF doc.kind = Null THEN "NotFound"
  ELSE IF doc.interviewerId # interviewerId THEN "Forbidden"
  ELSE ""
\* getCandidateTranscript, lines 419-428: the error the interview checks
\* throw, or "" when they pass
InterviewCheck(doc, status, interviewerId) ==
  IF doc.kind = "throw" THEN "Error"
  ELSE IF doc.kind = Null THEN "NotFound"
  ELSE IF doc.interviewerId # interviewerId THEN "Forbidden"
  ELSE IF status = "Scheduled" THEN "BadRequest: Interview not started"
  ELSE IF status = "Cancelled" THEN "BadRequest: Interview cancelled"
  ELSE ""

\* getCandidateTranscript, lines 430-433: CandidateModel.findById(candidateId)
\* finds the candidate while its interview exists; it must belong to interviewId
CandidateCheck(cand, interviewId) ==
  IF cand \notin Candidates \/ ~db[CandidateInterview(cand)].present THEN "NotFound"
  ELSE IF CandidateInterview(cand) # interviewId THEN "NotFound"
  ELSE ""

\* completion of `await InterviewModel.findById(interviewId)`, line 419
TranscriptInterview(id, dbOk, status) ==
  /\ id \in DOMAIN msgs
  /\ msgs[id].st = "lk1"
  /\ DbCall(dbOk)
  /\ LET why == InterviewCheck(findById(msgs[id].args.interviewId, dbOk), status,
                               msgs[id].args.interviewerId)
     IN IF why # ""
          THEN Reply(id, ErrDetails(id, why), why)
          ELSE /\ msgs' = [msgs EXCEPT ![id].st = "lk2"]
               /\ UNCHANGED outbox
  /\ UNCHANGED <<wss, interviewRooms, db, pc, req, readyState, closeCall,
                 wsInterviewerId, wsInterviewId, listeners, steps, fetched,
                 snap, closeFrame, transcripts, isAlive>>

\* completion of `await CandidateModel.findById(candidateId)`, line 430
TranscriptCandidate(id, dbOk) ==
  /\ id \in DOMAIN msgs
  /\ msgs[id].st = "lk2"
  /\ DbCall(dbOk)
  /\ LET why == IF ~dbOk THEN "Error"
                ELSE CandidateCheck(msgs[id].cand, msgs[id].args.interviewId)
     IN IF why # ""
          THEN Reply(id, ErrDetails(id, why), why)
          ELSE /\ msgs' = [msgs EXCEPT ![id].st = "lk3"]
               /\ UNCHANGED outbox
  /\ UNCHANGED <<wss, interviewRooms, db, pc, req, readyState, closeCall,
                 wsInterviewerId, wsInterviewId, listeners, steps, fetched,
                 snap, closeFrame, transcripts, isAlive>>

\* completion of `await TranscriptModel.find(...)`, line 435, and the reply
\* of handleCandidateDetailsRequest, lines 367-382
TranscriptFind(id, dbOk) ==
  /\ id \in DOMAIN msgs
  /\ msgs[id].st = "lk3"
  /\ DbCall(dbOk)
  /\ IF ~dbOk
       THEN Reply(id, ErrDetails(id, "Error"), "Error")
       ELSE Reply(id, Response(id, msgs[id].cand), "ok")
  /\ UNCHANGED <<wss, interviewRooms, db, pc, req, readyState, closeCall,
                 wsInterviewerId, wsInterviewId, listeners, steps, fetched,
                 snap, closeFrame, transcripts, isAlive>>

(* --------------------------- specification ---------------------------- *)
Next ==
  \/ initialize
  \/ shutdown
  \/ \E c \in Conns, r \in Requests : Connect(c, r)
  \/ \E c \in Conns, dbOk \in BOOLEAN : AdmissionLookup(c, dbOk)
  \/ \E c \in Conns, dbOk \in BOOLEAN : SnapshotInterview(c, dbOk)
  \/ \E c \in Conns, dbOk \in BOOLEAN : SnapshotCandidates(c, dbOk)
  \/ \E c \in Conns, dbOk \in BOOLEAN : SnapshotAggregate(c, dbOk)
  \/ \E c \in Conns : CloseEvent(c)
  \/ \E c \in Conns : Pong(c)
  \/ \E c \in Conns : ErrorEvent(c)
  \/ \E c \in Conns, m \in InboundMessages : ClientSend(c, m)
  \/ \E id \in MsgIds, dbOk \in BOOLEAN, status \in Statuses :
       TranscriptInterview(id, dbOk, status)
  \/ \E id \in MsgIds, dbOk \in BOOLEAN : TranscriptCandidate(id, dbOk)
  \/ \E id \in MsgIds, dbOk \in BOOLEAN : TranscriptFind(id, dbOk)
  \/ \E i \in Interviews : DeleteInterview(i)

Spec == Init /\ [][Next]_vars

\* The event loop resumes a suspended handler once its database call has
\* settled, and a database call settles: each await of a lookup that is
\* pending completes.
LookupsComplete ==
  \A id \in MsgIds :
    /\ WF_vars(\E dbOk \in BOOLEAN, status \in Statuses :
                 TranscriptInterview(id, dbOk, status))
    /\ WF_vars(\E dbOk \in BOOLEAN : TranscriptCandidate(id, dbOk))
    /\ WF_vars(\E dbOk \in BOOLEAN : TranscriptFind(id, dbOk))

FairSpec == Spec /\ LookupsComplete

(* ------------------- the progress of the snapshot --------------------- *)
\* A state of the service in which connection 1, of the owner of interview
\* i1, has been admitted and its snapshot build has found the interview and
\* its candidates and awaits the aggregate (line 196).
ProgressStart ==
  /\ wss = "listening"
  /\ interviewRooms = [i \in {"i1"} |-> {1}]
  /\ pc = [c \in Conns |-> IF c = 1 THEN "snap3" ELSE "idle"]
  /\ req = [c \in Conns |->
              IF c = 1 THEN [urlOk |-> TRUE, token |-> "tokA", interviewId |-> "i1"]
                       ELSE NoRequest]
  /\ readyState = [c \in Conns |-> IF c = 1 THEN "OPEN" ELSE "CONNECTING"]
  /\ closeCall = [c \in Conns |-> NoClose]
  /\ wsInterviewerId = [c \in Conns |-> IF c = 1 THEN "uA" ELSE "undefined"]
  /\ wsInterviewId = [c \in Conns |-> IF c = 1 THEN "i1" ELSE "undefined"]
  /\ listeners = [c \in Conns |-> c = 1]
  /\ steps = [c \in Conns |->
                IF c = 1 THEN {"verify", "lookup", "bind", "join", "handlers", "snapshot"}
                         ELSE {}]
  /\ fetched = [c \in Conns |->
                  IF c = 1 THEN [kind |-> "doc", interviewerId |-> "uA"] ELSE NoDoc]
  /\ snap = [c \in Conns |->
               IF c = 1 THEN [interview |-> "doc", res |-> "pending",
                              candidates |-> findCandidates("i1"), progress |-> <<>>]
                        ELSE NoSnap]
  /\ outbox = [c \in Conns |-> <<>>]
  /\ msgs = <<>>
  /\ faults = 0
  /\ closeFrame = [c \in Conns |-> NoClose]
  /\ isAlive = [c \in Conns |-> c = 1]

\* The inputs of the progress computation: the Transcript collection holds
\* any documents, and the interview has any positive num_questions.
InitProgress ==
  /\ \E n \in 1..MaxQuestions :
       db = [i \in Interviews |->
               [present |-> TRUE, interviewerId |-> IF i = "i1" THEN "uA" ELSE "uB",
                num_questions |-> IF i = "i1" THEN n ELSE MaxQuestions]]
  /\ transcripts \in [TranscriptIds -> TranscriptDocs]
  /\ ProgressStart

NextProgress ==
  \/ \E c \in Conns, dbOk \in BOOLEAN : SnapshotAggregate(c, dbOk)
  \/ \E c \in Conns : CloseEvent(c)

SpecProgress == InitProgress /\ [][NextProgress]_vars

(* --------------------- an admitted connection ------------------------- *)
\* A state of the service in which connection 1, of the owner of interview
\* i1, has just been admitted: handleConnection has called
\* sendInitialDashboardData, whose first fetch (line 190) is pending.
SnapshotStart ==
  /\ wss = "listening"
  /\ interviewRooms = [i \in {"i1"} |-> {1}]
  /\ pc = [c \in Conns |-> IF c = 1 THEN "snap1" ELSE "idle"]
  /\ req = [c \in Conns |->
              IF c = 1 THEN [urlOk |-> TRUE, token |-> "tokA", interviewId |-> "i1"]
                       ELSE NoRequest]
  /\ readyState = [c \in Conns |-> IF c = 1 THEN "OPEN" ELSE "CONNECTING"]
  /\ closeCall = [c \in Conns |-> NoClose]
  /\ wsInterviewerId = [c \in Conns |-> IF c = 1 THEN "uA" ELSE "undefined"]
  /\ wsInterviewId = [c \in Conns |-> IF c = 1 THEN "i1" ELSE "undefined"]
  /\ listeners = [c \in Conns |-> c = 1]
  /\ steps = [c \in Conns |->
                IF c = 1 THEN {"verify", "lookup", "bind", "join", "handlers", "snapshot"}
                         ELSE {}]
  /\ fetched = [c \in Conns |->
                  IF c = 1 THEN [kind |-> "doc", interviewerId |-> "uA"] ELSE NoDoc]
  /\ snap = [c \in Conns |-> NoSnap]
  /\ outbox = [c \in Conns |-> <<>>]
  /\ msgs = <<>>
  /\ closeFrame = [c \in Conns |-> NoClose]
  /\ transcripts = [t \in TranscriptIds |-> NoTranscript]
  /\ isAlive = [c \in Conns |-> c = 1]

\* The interview of the admitted connection is still there, or its deletion
\* has committed since the admission's lookup; `faults` counts the
\* disturbances from here on.
InitSnapshot ==
  /\ SnapshotStart
  /\ \E gone \in SUBSET Deletable :
       db = [i \in Interviews |->
               [present |-> i \notin gone,
                interviewerId |-> IF i = "i1" THEN "uA" ELSE "uB",
                num_questions |-> MaxQuestions]]
  /\ faults = 0

NextSnapshot ==
  \/ \E c \in Conns, dbOk \in BOOLEAN : SnapshotInterview(c, dbOk)
  \/ \E c \in Conns, dbOk \in BOOLEAN : SnapshotCandidates(c, dbOk)
  \/ \E c \in Conns, dbOk \in BOOLEAN : SnapshotAggregate(c, dbOk)
  \/ \E c \in Conns : CloseEvent(c)
  \/ \E c \in Conns, m \in InboundMessages : ClientSend(c, m)
  \/ \E id \in MsgIds, dbOk \in BOOLEAN, status \in Statuses :
       TranscriptInterview(id, dbOk, status)
  \/ \E id \in MsgIds, dbOk \in BOOLEAN : TranscriptCandidate(id, dbOk)
  \/ \E id \in MsgIds, dbOk \in BOOLEAN : TranscriptFind(id, dbOk)
  \/ \E i \in Interviews : DeleteInterview(i)

SpecSnapshot == InitSnapshot /\ [][NextSnapshot]_vars

(* ----------------------------- properties ----------------------------- *)
Count(seq, ev) == Cardinality({i \in DOMAIN seq : seq[i].event = ev})
InRoom(c) == \E i \in DOMAIN interviewRooms : c \in interviewRooms[i]
Decoded(c) == getDataFromToken(req[c].token)
\* the admission of c has passed: identity and interview are bound, the
\* connection was joined to its room and the listeners are attached
Admitted(c) ==
  /\ {"bind", "join", "handlers"} \subseteq steps[c]
  /\ listeners[c]
  /\ wsInterviewerId[c] = Decoded(c).id
  /\ wsInterviewId[c] = req[c].interviewId
\* the lookup of c's admission found the interview and the token's subject
\* is its owner
OwnerFound(c) ==
  /\ fetched[c].kind = "doc"
  /\ fetched[c].interviewerId = Decoded(c).id
\* positions of the dashboard:init messages in c's outbox
InitAt(c) == {i \in DOMAIN outbox[c] : outbox[c][i].event = "dashboard:init"}

\* C1 as claimed: for every connection whose token decodes to the owner of
\* the requested interview, admission succeeds, the first outbound message
\* is dashboard:init, and a connection that stays open gets exactly one,
\* even when no database call fails, no interview is deleted and the
\* server is not shut down.
C1_InitFirstExactlyOnce ==
  \A c \in Conns :
    OwnerFound(c) /\ faults = 0 /\ readyState[c] = "OPEN" =>
      /\ Admitted(c)
      /\ outbox[c] # <<>> => outbox[c][1].event = "dashboard:init"
      /\ pc[c] = "done" => Count(outbox[c], "dashboard:init") = 1

\* C1 amended: for every connection whose token decodes to the owner of the
\* requested interview, admission succeeds and at most one dashboard:init is
\* sent to it; one is sent only when the snapshot was built, and a
\* connection that is open when its snapshot has been built has got exactly
\* one.  The messages sent before it are replies to inbound messages that
\* arrived while the snapshot's fetches were pending.
C1_InitAtMostOnce ==
  \A c \in Conns :
    /\ OwnerFound(c) => Admitted(c)
    /\ Count(outbox[c], "dashboard:init") <= 1
    /\ Count(outbox[c], "dashboard:init") = 1 => Admitted(c) /\ snap[c].res = "built"
    /\ pc[c] = "done" /\ snap[c].res = "built" /\ readyState[c] = "OPEN"
         => Count(outbox[c], "dashboard:init") = 1
    /\ \A i \in InitAt(c) : \A j \in 1..(i - 1) :
         /\ outbox[c][j].msg \in DOMAIN msgs
         /\ msgs[outbox[c][j].msg].conn = c

\* a reply to an inbound message precedes the dashboard:init of an admitted owner
C1_Witness ==
  \E c \in Conns :
    /\ OwnerFound(c)
    /\ Len(outbox[c]) = 2
    /\ outbox[c][1].event = "error" /\ outbox[c][1].msg # 0
    /\ outbox[c][2].event = "dashboard:init"

\* C2: a connection whose decoded identity differs from the owner of the
\* interview it asks for is closed with 1008 "Unauthorized access to this
\* interview", is never joined to a room and is sent no dashboard:init (nor
\* any other message).
C2_NonOwnerRejected ==
  \A c \in Conns :
    fetched[c].kind = "doc" /\ fetched[c].interviewerId # Decoded(c).id =>
      /\ closeCall[c] = CloseUnauthorized
      /\ readyState[c] # "OPEN"
      /\ pc[c] = "done"
      /\ "join" \notin steps[c]
      /\ ~InRoom(c)
      /\ ~listeners[c]
      /\ outbox[c] = <<>>

C2_Witness ==
  \E c \in Conns :
    /\ fetched[c].kind = "doc"
    /\ fetched[c].interviewerId # Decoded(c).id
    /\ closeCall[c] = CloseUnauthorized
    /\ readyState[c] = "CLOSED"

\* the messages of c's outbox that answer inbound message id
Answers(c, id) == {i \in DOMAIN outbox[c] : outbox[c][i].msg = id}
\* inbound message id is a request for a candidate of another interview
\* than the one its connection is bound to
Foreign(id) ==
  /\ msgs[id].kind = "request"
  /\ msgs[id].cand \in Candidates
  /\ CandidateInterview(msgs[id].cand) # wsInterviewId[msgs[id].conn]

\* C3: the lookup of a request:candidate_details is called with the
\* interviewId and interviewerId bound at admission, whatever the payload
\* says; a request for a candidate of another interview gets no
\* response:candidate_details on any connection, its lookup fails, and the
\* only message that answers it is one `error` (sent if the connection is
\* open when the lookup fails).
C3_ForeignCandidateFails ==
  \A id \in DOMAIN msgs :
    /\ msgs[id].st \in {"lk1", "lk2", "lk3"} \/ msgs[id].res \notin {"-", "invalid", "ignored", "missing"}
         => msgs[id].args = [interviewId |-> wsInterviewId[msgs[id].conn],
                             interviewerId |-> wsInterviewerId[msgs[id].conn]]
    /\ Foreign(id) =>
         /\ msgs[id].st # "lk3"
         /\ msgs[id].res # "ok"
         /\ \A c \in Conns : \A i \in Answers(c, id) :
              outbox[c][i].event = "error" /\ c = msgs[id].conn
         /\ msgs[id].st = "done" /\ readyState[msgs[id].conn] = "OPEN"
              => Cardinality(Answers(msgs[id].conn, id)) = 1

\* a request for a candidate of another interview passed the interview
\* checks, failed at the candidate check and was answered with an error
C3_Witness ==
  \E id \in DOMAIN msgs :
    /\ Foreign(id)
    /\ msgs[id].st = "done"
    /\ msgs[id].res = "NotFound"
    /\ db[wsInterviewId[msgs[id].conn]].present
    /\ db[CandidateInterview(msgs[id].cand)].present
    /\ Cardinality(Answers(msgs[id].conn, id)) = 1

\* C4: every message that answers an inbound message (a
\* response:candidate_details or a per-request error) is in the outbox of
\* the connection the inbound message arrived on.
C4_PointToPoint ==
  \A c \in Conns : \A i \in DOMAIN outbox[c] :
    outbox[c][i].msg # 0 =>
      /\ outbox[c][i].msg \in DOMAIN msgs
      /\ msgs[outbox[c][i].msg].conn = c

\* a response was sent to its requester while another admitted connection
\* of the same room was open
C4_Witness ==
  \E c, b \in Conns :
    /\ c # b
    /\ \E i \in DOMAIN outbox[c] : outbox[c][i].event = "response:candidate_details"
    /\ Admitted(b) /\ readyState[b] = "OPEN"
    /\ wsInterviewId[b] = wsInterviewId[c]

\* C5 as claimed: a connection whose token fails verification, or whose
\* verified token has no subject, is closed with 1008 "Invalid
\* authentication token".
C5_InvalidTokenClosed1008 ==
  \A c \in Conns :
    /\ pc[c] # "idle"
    /\ req[c].urlOk
    /\ req[c].token \notin {Null, ""} /\ req[c].interviewId \notin {Null, ""}
    /\ JwtVerify(req[c].token).threw \/ JwtVerify(req[c].token).id = NoId
    => closeCall[c] = CloseInvalidToken

\* C6: a connection whose URL parses is closed with 1008 "Missing token or
\* interviewId" exactly when the token or the interviewId is absent or
\* empty, and then the token is not verified, no interview is looked up,
\* no room is joined and no message is sent.
C6_MissingParams ==
  \A c \in Conns :
    pc[c] # "idle" /\ req[c].urlOk =>
      LET missing == req[c].token \in {Null, ""} \/ req[c].interviewId \in {Null, ""}
      IN /\ closeCall[c] = CloseMissing <=> missing
         /\ missing =>
              /\ pc[c] = "done"
              /\ readyState[c] # "OPEN"
              /\ steps[c] = {}
              /\ fetched[c] = NoDoc
              /\ ~InRoom(c)
              /\ ~listeners[c]
              /\ outbox[c] = <<>>

\* a connection with a token and no interviewId was closed for the missing
\* parameter
C6_Witness ==
  \E c \in Conns :
    /\ req[c].urlOk
    /\ req[c].token = "tokA" /\ req[c].interviewId = Null
    /\ closeCall[c] = CloseMissing
    /\ readyState[c] = "CLOSED"

\* C7: when the admission's interview lookup returns no record the
\* connection is closed with 1008 "Interview not found" and is never joined
\* to a room.
C7_InterviewNotFound ==
  \A c \in Conns :
    fetched[c].kind = Null =>
      /\ closeCall[c] = CloseNotFound
      /\ readyState[c] # "OPEN"
      /\ pc[c] = "done"
      /\ "join" \notin steps[c]
      /\ ~InRoom(c)
      /\ ~listeners[c]

\* an owner asked for an interview that was deleted before the lookup
C7_Witness ==
  \E c \in Conns :
    /\ req[c].interviewId \in Interviews
    /\ fetched[c].kind = Null
    /\ closeCall[c] = CloseNotFound

\* an exception was thrown during c's admission: by `new URL`, by the token
\* verifier or by the interview lookup
Threw(c) ==
  /\ pc[c] # "idle"
  /\ \/ ~req[c].urlOk
     \/ /\ req[c].token \notin {Null, ""} /\ req[c].interviewId \notin {Null, ""}
        /\ JwtVerify(req[c].token).threw
     \/ fetched[c].kind = "throw"

\* C8: an exception thrown during the admission closes the connection with
\* 1011 "Internal server error during handshake", and no run of the
\* admission ends with the connection open and not admitted.
C8_HandshakeFailure ==
  \A c \in Conns :
    /\ Threw(c) => /\ closeCall[c] = CloseHandshake
                   /\ readyState[c] # "OPEN"
                   /\ pc[c] = "done"
                   /\ ~InRoom(c)
    /\ pc[c] \notin {"idle", "lookup"} => Admitted(c) \/ readyState[c] # "OPEN"

\* the interview lookup of an admission failed and the connection was
\* closed with 1011
C8_Witness ==
  \E c \in Conns :
    /\ fetched[c].kind = "throw"
    /\ req[c].interviewId \in Interviews
    /\ closeCall[c] = CloseHandshake

\* C9: no inbound message of a connection is handled before the
\* connection's admission has passed its checks: a message that arrives
\* while the interview lookup is pending is lost, it is never dispatched
\* and never answered, and every message that was handled arrived on a
\* connection already admitted.
C9_NoMessageBeforeAdmission ==
  \A id \in DOMAIN msgs :
    /\ msgs[id].early => msgs[id].st = "dropped"
    /\ msgs[id].st = "dropped" =>
         /\ msgs[id].res = "-" /\ msgs[id].args = NoArgs
         /\ \A c \in Conns : Answers(c, id) = {}
    /\ msgs[id].st # "dropped" => Admitted(msgs[id].conn)

\* a message arrived while the lookup was pending, was lost, and the
\* connection was admitted afterwards
C9_Witness ==
  \E id \in DOMAIN msgs :
    /\ msgs[id].early
    /\ msgs[id].st = "dropped"
    /\ Admitted(msgs[id].conn)
    /\ pc[msgs[id].conn] = "done"
    /\ readyState[msgs[id].conn] = "OPEN"

RoomOf(i) == IF i \in DOMAIN interviewRooms THEN interviewRooms[i] ELSE {}
\* the connections admitted for interview i whose 'close' listener has not run
Members(i) ==
  {c \in Conns : /\ "join" \in steps[c]
                 /\ wsInterviewId[c] = i
                 /\ "closed" \notin steps[c]}

\* C10: until shutdown clears the registry, the room of an interview is the
\* set of the connections admitted for it whose close has not been handled,
\* and the registry has an entry for the interview only while that set is
\* not empty: two admissions give a room of size 2, one close leaves size
\* 1, two closes leave no entry.
C10_RoomSizes ==
  wss # "closed" =>
    \A i \in Interviews :
      /\ RoomOf(i) = Members(i)
      /\ i \in DOMAIN interviewRooms <=> Members(i) # {}

\* two connections were admitted for the same interview, both have closed,
\* and the registry has no entry for it
C10_Witness ==
  /\ wss = "listening"
  /\ \E i \in Interviews :
       /\ Cardinality({c \in Conns : "join" \in steps[c] /\ wsInterviewId[c] = i
                                      /\ "closed" \in steps[c]}) = 2
       /\ i \notin DOMAIN interviewRooms

\* C11: in every reachable state, after any sequence of admissions, closes
\* and shutdowns, the registry has no key whose room is the empty set.
C11_NoEmptyRoom ==
  \A i \in DOMAIN interviewRooms : interviewRooms[i] # {}

\* a close emptied a room and its key is gone, while the room of another
\* interview is still in the registry
C11_Witness ==
  \E c, b \in Conns :
    /\ "closed" \in steps[c] /\ "join" \in steps[c]
    /\ wsInterviewId[c] \notin DOMAIN interviewRooms
    /\ wsInterviewId[b] \in DOMAIN interviewRooms
    /\ b \in interviewRooms[wsInterviewId[b]]

\* C12 as claimed: no connection whose close event has fired is a member of
\* a room, also when the close happens while the interview lookup of its
\* admission is pending.
C12_ClosedNotInRoom ==
  \A c \in Conns : readyState[c] = "CLOSED" => ~InRoom(c)

\* the rooms connection c is a member of
RoomsOf(c) == {i \in DOMAIN interviewRooms : c \in interviewRooms[i]}

\* C13: each connection is a member of at most one room, and the key of a
\* room it is a member of is the interview id bound to it (ws.interviewId).
C13_OneRoom ==
  \A c \in Conns :
    /\ Cardinality(RoomsOf(c)) <= 1
    /\ \A i \in RoomsOf(c) : wsInterviewId[c] = i

\* two connections are members of the rooms of two interviews
C13_Witness ==
  \E c, b \in Conns :
    /\ RoomsOf(c) = {"i1"} /\ wsInterviewId[c] = "i1"
    /\ RoomsOf(b) = {"i2"} /\ wsInterviewId[b] = "i2"

\* the keys leaveRoom is called with: the interviews and an id of no room
LeaveKeys == Interviews \cup {"ghost"}

\* C14: on every registry the service reaches, a second leaveRoom for the
\* same (interviewId, connection) pair changes nothing, and a leaveRoom for
\* a key that is absent, or for a connection that is no member of the
\* room, leaves the whole registry unchanged (leaveRoom has no throw).
C14_LeaveIdempotent ==
  \A i \in LeaveKeys, c \in Conns :
    LET once == leaveRoom(interviewRooms, i, c) IN
      /\ leaveRoom(once, i, c) = once
      /\ i \notin DOMAIN interviewRooms => once = interviewRooms
      /\ i \in DOMAIN interviewRooms /\ c \notin interviewRooms[i]
           => once = interviewRooms

\* the close listener of a connection has called leaveRoom, its room still
\* has another member, and a second leaveRoom for it changes nothing
C14_Witness ==
  \E c, b \in Conns :
    /\ c # b
    /\ "join" \in steps[c] /\ "closed" \in steps[c]
    /\ wsInterviewId[c] \in DOMAIN interviewRooms
    /\ interviewRooms[wsInterviewId[c]] = {b}
    /\ leaveRoom(interviewRooms, wsInterviewId[c], c) = interviewRooms

\* a step on which an inbound message arrives, and the message
Arrives == Len(msgs') = Len(msgs) + 1
Arrived == msgs'[Len(msgs')]
\* a step leaves every connection open or closed as it was and the registry
\* as it was
KeepsConnections == readyState' = readyState /\ interviewRooms' = interviewRooms
\* a step sends message m on connection c and nothing else
SendsOnly(c, m) ==
  outbox' = [outbox EXCEPT ![c] = Append(@, m)]

C15_Step ==
  /\ Arrives
  /\ Arrived.kind \in {"nonjson", "jsonnull"}
  /\ readyState[Arrived.conn] = "OPEN"
  => /\ Arrived.st = "done" /\ Arrived.res = "invalid"
     /\ SendsOnly(Arrived.conn, ErrInvalid(Len(msgs')))
     /\ KeepsConnections
C15_State ==
  \A id \in DOMAIN msgs :
    msgs[id].kind \in {"nonjson", "jsonnull"} =>
      /\ \A c \in Conns : \A i \in Answers(c, id) :
           c = msgs[id].conn /\ outbox[c][i] = ErrInvalid(id)
      /\ Cardinality(Answers(msgs[id].conn, id)) <= 1

\* C15: an inbound message that is no JSON, or whose parsed value has no
\* readable `event`, handled on an open admitted connection, makes the
\* handler send exactly one `error` "Invalid message format" on that
\* connection and nothing else; the handler closes no connection and leaves
\* the registry as it is; no other message ever answers it.
C15_Malformed == []C15_State /\ [][C15_Step]_vars

\* the JSON text `null` was answered with one error on a connection that is
\* still open and in its room
C15_Witness ==
  \E id \in DOMAIN msgs :
    /\ msgs[id].kind = "jsonnull"
    /\ readyState[msgs[id].conn] = "OPEN"
    /\ msgs[id].conn \in RoomOf(wsInterviewId[msgs[id].conn])
    /\ Cardinality(Answers(msgs[id].conn, id)) = 1
    /\ \E i \in Answers(msgs[id].conn, id) :
         outbox[msgs[id].conn][i].text = "Invalid message format"

\* request id has failed: its handling is over and no transcript was found
Failed(ms, id) ==
  /\ id \in DOMAIN ms
  /\ ms[id].kind = "request" /\ ms[id].st = "done" /\ ms[id].res # "ok"

C16_Step ==
  \A id \in MsgIds :
    Failed(msgs', id) /\ ~Failed(msgs, id) =>
      LET c == msgs'[id].conn IN
        /\ IF readyState[c] = "OPEN"
             THEN \E why \in {msgs'[id].res, "candidateId missing from payload"} :
                    why # "" /\ SendsOnly(c, [event |-> "error", msg |-> id, text |-> why])
             ELSE outbox' = outbox
        /\ KeepsConnections
C16_State ==
  \A id \in DOMAIN msgs :
    /\ msgs[id].kind = "request" /\ msgs[id].cand = Null => Failed(msgs, id)
    /\ Failed(msgs, id) =>
         /\ \A c \in Conns : \A i \in Answers(c, id) :
              c = msgs[id].conn /\ outbox[c][i].event = "error"
         /\ Cardinality(Answers(msgs[id].conn, id)) <= 1

\* C16: when a request:candidate_details fails (no candidateId in the
\* payload, interview or candidate not found, requester not the owner, the
\* interview not started or cancelled, a lookup that throws), the handler
\* sends exactly one `error` with a reason to the requesting connection, if
\* that connection is open, and nothing else; no response:candidate_details
\* ever answers the request; the handler closes no connection and removes
\* none from its room.
C16_RequestFails == []C16_State /\ [][C16_Step]_vars

\* a lookup threw, the request was answered with one error, and the
\* connection is open and in its room
C16_Witness ==
  \E id \in DOMAIN msgs :
    /\ Failed(msgs, id) /\ msgs[id].res = "Error"
    /\ readyState[msgs[id].conn] = "OPEN"
    /\ msgs[id].conn \in RoomOf(wsInterviewId[msgs[id].conn])
    /\ Cardinality(Answers(msgs[id].conn, id)) = 1

C17_Step ==
  Arrives /\ Arrived.kind \in {"ping", "unknown", "notag"} =>
    /\ Arrived.st = "done" /\ Arrived.res = "ignored"
    /\ outbox' = outbox
    /\ KeepsConnections
C17_State ==
  \A id \in DOMAIN msgs :
    msgs[id].kind \in {"ping", "unknown", "notag"} =>
      \A c \in Conns : Answers(c, id) = {}

\* C17: an inbound message whose event tag is not request:candidate_details
\* (the declared tag `ping`, an unknown tag, no tag) is never answered: its
\* handler sends nothing, closes no connection and leaves the registry
\* unchanged.
C17_OtherTagIgnored == []C17_State /\ [][C17_Step]_vars

\* a `ping` was handled on an open connection that got its dashboard:init
\* and nothing else
C17_Witness ==
  \E id \in DOMAIN msgs :
    /\ msgs[id].kind = "ping"
    /\ readyState[msgs[id].conn] = "OPEN"
    /\ msgs[id].conn \in RoomOf(wsInterviewId[msgs[id].conn])
    /\ outbox[msgs[id].conn] = <<DashboardInit>>

\* positions of the snapshot's error in c's outbox
DashboardErrors(c) == {i \in DOMAIN outbox[c] : outbox[c][i] = ErrDashboard}

C18_Step ==
  \A c \in Conns :
    /\ /\ pc[c] \in {"snap1", "snap2", "snap3"}
       /\ pc'[c] # pc[c]
       /\ faults' # faults
       => snap'[c].res = "failed"
    /\ snap'[c].res = "failed" /\ snap[c].res # "failed" =>
         /\ IF readyState[c] = "OPEN"
              THEN SendsOnly(c, ErrDashboard)
              ELSE outbox' = outbox
         /\ KeepsConnections
C18_State ==
  \A c \in Conns :
    /\ DashboardErrors(c) # {} => snap[c].res = "failed"
    /\ snap[c].res = "failed" =>
         /\ Count(outbox[c], "dashboard:init") = 0
         /\ Cardinality(DashboardErrors(c)) <= 1
    /\ snap[c].res = "failed" /\ readyState[c] = "OPEN" =>
         /\ Cardinality(DashboardErrors(c)) = 1
         /\ c \in RoomOf(wsInterviewId[c])

\* C18: when a fetch or the aggregate of the snapshot build fails, the
\* build ends in its catch, which sends exactly one `error` "Failed to load
\* dashboard data" to the newly admitted connection, if that connection is
\* open, and to no other connection; no dashboard:init is sent to it; the
\* catch closes no connection and removes none from its room, so that an
\* open connection stays open and a member of its room.
C18_SnapshotFails == []C18_State /\ [][C18_Step]_vars

\* the snapshot of one connection failed and it got the error, while
\* another open connection of the same room got only its dashboard:init
C18_Witness ==
  \E c, b \in Conns :
    /\ c # b
    /\ snap[c].res = "failed"
    /\ readyState[c] = "OPEN"
    /\ outbox[c] = <<ErrDashboard>>
    /\ {b, c} \subseteq RoomOf(wsInterviewId[c])
    /\ readyState[b] = "OPEN"
    /\ outbox[b] = <<DashboardInit>>

\* the transcripts of candidate k that were submitted
Submitted(k) ==
  {t \in TranscriptIds : /\ transcripts[t].candidate_id = k
                         /\ transcripts[t].submitted_at # Null}
Unsubmitted(k) ==
  {t \in TranscriptIds : /\ transcripts[t].candidate_id = k
                         /\ transcripts[t].submitted_at = Null}

\* C19: the snapshot that was built has, for every candidate of the
\* interview, the progress "<a>/<n>", n the interview's num_questions and a
\* the number of the candidate's transcripts with a non-null submitted_at
\* (0 when it has none); transcripts not submitted and transcripts of other
\* candidates do not count.
C19_Progress ==
  \A c \in Conns :
    snap[c].res = "built" =>
      /\ snap[c].candidates =
           {k \in Candidates : CandidateInterview(k) = wsInterviewId[c]}
      /\ DOMAIN snap[c].progress = snap[c].candidates
      /\ \A k \in snap[c].candidates :
           snap[c].progress[k] =
             ToString(Cardinality(Submitted(k))) \o "/"
               \o ToString(db[wsInterviewId[c]].num_questions)

\* 3 submitted and 2 unsubmitted transcripts with num_questions = 5 gave
\* "3/5", and the candidate without transcripts got "0/5"
C19_Witness ==
  \E c \in Conns :
    /\ snap[c].res = "built"
    /\ db[wsInterviewId[c]].num_questions = 5
    /\ Cardinality(Submitted("k1")) = 3 /\ Cardinality(Unsubmitted("k1")) = 2
    /\ snap[c].progress["k1"] = "3/5"
    /\ snap[c].progress["k3"] = "0/5"
    /\ Count(outbox[c], "dashboard:init") = 1

\* the state the progress computation starts from is one the service reaches
C19_StartReached ==
  /\ ProgressStart
  /\ db["i1"].present

C20_Step ==
  wss = "listening" /\ wss' = "closed" =>
    /\ \A c \in Conns :
         IF readyState[c] = "OPEN"
           THEN readyState'[c] = "CLOSING" /\ closeFrame'[c] = CloseShutdown
           ELSE readyState'[c] = readyState[c] /\ closeFrame'[c] = closeFrame[c]
    /\ DOMAIN interviewRooms' = {}
    /\ outbox' = outbox
C20_State ==
  \A c \in Conns :
    /\ closeFrame[c] = CloseShutdown => wss = "closed"
    /\ wss = "closed" => readyState[c] # "OPEN"

\* C20: a shutdown of the initialized service closes every connection that
\* is open with 1001 "Server shutting down" and no other, closes the
\* server and leaves the registry without entries, in one run that does
\* not wait for the closes: the connections it closed are closing, not yet
\* closed, when it returns.
C20_Shutdown == []C20_State /\ [][C20_Step]_vars

\* shutdown has closed an admitted connection with 1001, the connection is
\* still closing and the registry is empty
C20_Witness ==
  \E c \in Conns :
    /\ wss = "closed"
    /\ "join" \in steps[c]
    /\ closeFrame[c] = CloseShutdown
    /\ readyState[c] = "CLOSING"
    /\ DOMAIN interviewRooms = {}

\* the members of the room of key i in registry rooms, none without the key
RoomIn(rooms, i) == IF i \in DOMAIN rooms THEN rooms[i] ELSE {}
\* a step on which the admission of c joins it to the room of its interview
JoinStep(c) ==
  /\ pc[c] = "lookup" /\ pc'[c] = "snap1"
  /\ \A i \in LeaveKeys :
       RoomIn(interviewRooms', i) =
         RoomIn(interviewRooms, i) \cup (IF i = wsInterviewId'[c] THEN {c} ELSE {})
\* a step on which the close of c removes it from the room of its interview
LeaveStep(c) ==
  /\ readyState[c] # "CLOSED" /\ readyState'[c] = "CLOSED"
  /\ \A i \in LeaveKeys :
       RoomIn(interviewRooms', i) =
         RoomIn(interviewRooms, i) \ (IF i = wsInterviewId[c] THEN {c} ELSE {})
\* a step on which shutdown clears the registry
ClearStep ==
  /\ wss # "null" /\ wss' = "closed"
  /\ DOMAIN interviewRooms' = {}
\* a step of a message handler or of the snapshot build
HandlerStep ==
  \/ msgs' # msgs
  \/ outbox' # outbox
  \/ \E c \in Conns : pc[c] \in {"snap1", "snap2", "snap3"} /\ pc'[c] # pc[c]

\* C21 as claimed: the registry is changed only by a join of the admission
\* path and a leave of the close path.
C21_OnlyJoinLeave ==
  [][interviewRooms' # interviewRooms
       => \E c \in Conns : JoinStep(c) \/ LeaveStep(c)]_vars

\* C21 amended: the registry is changed only by a join of the admission
\* path, a leave of the close path and the clear of shutdown; the handling
\* of an inbound message (valid request, other tag, malformed data) and the
\* build and send of a snapshot leave the registry and every room as they
\* are.
C21_RegistryWriters ==
  [][/\ interviewRooms' # interviewRooms
          => ClearStep \/ \E c \in Conns : JoinStep(c) \/ LeaveStep(c)
     /\ HandlerStep => interviewRooms' = interviewRooms]_vars

\* shutdown has emptied a registry in which a connection was a member, with
\* no close of that connection handled, after its snapshot was sent and a
\* request of it was answered
C21_Witness ==
  \E c \in Conns : \E id \in DOMAIN msgs :
    /\ wss = "closed"
    /\ "join" \in steps[c] /\ "closed" \notin steps[c]
    /\ readyState[c] = "CLOSING"
    /\ DOMAIN interviewRooms = {}
    /\ snap[c].res = "built"
    /\ msgs[id].conn = c /\ msgs[id].res = "ok"

C22_Step ==
  \A c \in Conns :
    wsInterviewerId'[c] # wsInterviewerId[c] \/ wsInterviewId'[c] # wsInterviewId[c] =>
      /\ wsInterviewerId[c] = "undefined" /\ wsInterviewId[c] = "undefined"
      /\ pc[c] = "lookup" /\ pc'[c] = "snap1"
      /\ wsInterviewerId'[c] = Decoded(c).id
      /\ wsInterviewId'[c] = req[c].interviewId
C22_State ==
  \A c \in Conns :
    IF "bind" \in steps[c]
      THEN /\ OwnerFound(c)
           /\ wsInterviewerId[c] = Decoded(c).id
           /\ wsInterviewId[c] = req[c].interviewId
      ELSE wsInterviewerId[c] = "undefined" /\ wsInterviewId[c] = "undefined"

\* C22: the identity and the interview id bound to a connection are
\* written once, by the admission that succeeds (the token's subject and
\* the requested interview id), and no later step (message handler, pong,
\* error, close, shutdown) changes them; a connection that was not admitted
\* has none.
C22_BoundOnce == []C22_State /\ [][C22_Step]_vars

\* after a request of it was answered, shutdown ran and its close was
\* handled, an admitted connection still has the identity and the
\* interview id of its admission
C22_Witness ==
  \E c \in Conns : \E id \in DOMAIN msgs :
    /\ wss = "closed"
    /\ "closed" \in steps[c]
    /\ msgs[id].conn = c /\ msgs[id].res = "ok"
    /\ isAlive[c]
    /\ wsInterviewerId[c] = "uA" /\ wsInterviewId[c] = "i1"

\* the position in c's outbox of the reply to inbound message id, 0 if none
ReplyAt(c, id) ==
  IF Answers(c, id) = {} THEN 0 ELSE CHOOSE i \in Answers(c, id) : TRUE
\* the handler of inbound message id suspends on a lookup
Suspends(id) == msgs[id].kind = "request" /\ msgs[id].cand # Null

\* C23: the handler of every inbound message has started when the next
\* message arrives (msgs holds them in arrival order, each run to its first
\* await or to its end), and on one connection the reply to a later message
\* precedes the reply to an earlier one only if the earlier one is a
\* request whose handler suspended on its lookup.
C23_Order ==
  /\ \A id \in DOMAIN msgs : msgs[id].st \in {"dropped", "done", "lk1", "lk2", "lk3"}
  /\ \A a, b \in DOMAIN msgs :
       /\ a < b /\ msgs[a].conn = msgs[b].conn
       /\ ReplyAt(msgs[b].conn, b) # 0
       /\ \/ ReplyAt(msgs[a].conn, a) > ReplyAt(msgs[b].conn, b)
          \/ /\ ReplyAt(msgs[a].conn, a) = 0
             /\ msgs[a].st \in {"lk1", "lk2", "lk3"}
       => Suspends(a)

\* the reply to the second message of a connection was sent before the
\* reply to its first, a request whose lookup was pending
C23_Witness ==
  \E a, b \in DOMAIN msgs :
    /\ a < b /\ msgs[a].conn = msgs[b].conn
    /\ ReplyAt(msgs[b].conn, b) # 0
    /\ ReplyAt(msgs[a].conn, a) > ReplyAt(msgs[b].conn, b)

\* a database fetch of connection c is pending: the lookup of its
\* admission, a fetch of its snapshot build or a lookup of a request of it
Pending(c) ==
  \/ pc[c] \in {"lookup", "snap1", "snap2", "snap3"}
  \/ \E id \in DOMAIN msgs : msgs[id].conn = c /\ msgs[id].st \in {"lk1", "lk2", "lk3"}

\* C24: while a fetch of one connection is pending, every other connection
\* can take its next step: its admission lookup, the fetches of its
\* snapshot and the lookups of its requests can complete, it can close, it
\* can send a message that is handled, and the next connection can be
\* accepted (as far as the load the model allows is not used up).
C24_NoBlocking ==
  \A c, b \in Conns :
    c # b /\ Pending(c) =>
      /\ pc[b] = "lookup" => ENABLED AdmissionLookup(b, TRUE)
      /\ pc[b] = "snap1" => ENABLED SnapshotInterview(b, TRUE)
      /\ pc[b] = "snap2" => ENABLED SnapshotCandidates(b, TRUE)
      /\ pc[b] = "snap3" => ENABLED SnapshotAggregate(b, TRUE)
      /\ \A id \in DOMAIN msgs :
           msgs[id].conn = b =>
             /\ msgs[id].st = "lk1" => ENABLED TranscriptInterview(id, TRUE, "Completed")
             /\ msgs[id].st = "lk2" => ENABLED TranscriptCandidate(id, TRUE)
             /\ msgs[id].st = "lk3" => ENABLED TranscriptFind(id, TRUE)
      /\ readyState[b] \in {"OPEN", "CLOSING"} => ENABLED CloseEvent(b)
      /\ readyState[b] \in {"OPEN", "CLOSING"} /\ Len(msgs) < MaxMsgs /\ Load < MaxLoad
           => \A m \in InboundMessages : ENABLED ClientSend(b, m)
      /\ /\ wss = "listening" /\ pc[b] = "idle" /\ Load < MaxLoad
         /\ \A a \in Conns : a < b => pc[a] # "idle"
         => \A r \in OwnerRequests : ENABLED Connect(b, r)

\* while the admission lookup of the first connection was pending, a
\* second connection was admitted, got its snapshot, had a request
\* answered and closed
C24_Witness ==
  \E c, b \in Conns : \E id \in DOMAIN msgs :
    /\ c < b
    /\ pc[c] = "lookup" /\ readyState[c] = "OPEN"
    /\ snap[b].res = "built"
    /\ outbox[b] # <<>>
    /\ msgs[id].conn = b /\ msgs[id].res = "ok"
    /\ "closed" \in steps[b]

\* the admission of c has ended without admitting it
Rejected(c) == pc[c] \notin {"idle", "lookup"} /\ "bind" \notin steps[c]
RejectionCloses ==
  {CloseMissing, CloseInvalidToken, CloseNotFound, CloseUnauthorized, CloseHandshake}

\* C25: a connection rejected at admission (missing parameter, invalid
\* token, interview not found, not the owner, exception) was closed with
\* the code and reason of its rejection, has no message listener, none of
\* its inbound messages is dispatched, it is in no room and it is sent no
\* message at all; the only close frame it can get besides that of its
\* rejection is the one of a shutdown that came first.
C25_RejectedSilent ==
  \A c \in Conns :
    Rejected(c) =>
      /\ closeCall[c] \in RejectionCloses
      /\ closeFrame[c] \in {closeCall[c], CloseShutdown, NoClose}
      /\ readyState[c] # "OPEN"
      /\ ~listeners[c]
      /\ ~InRoom(c)
      /\ outbox[c] = <<>>
      /\ \A id \in DOMAIN msgs :
           msgs[id].conn = c => msgs[id].st = "dropped" /\ msgs[id].res = "-"

\* a connection rejected as not the owner sent a message before its close
\* completed; the message was lost and nothing was sent to it
C25_Witness ==
  \E c \in Conns : \E id \in DOMAIN msgs :
    /\ Rejected(c)
    /\ closeFrame[c] = CloseUnauthorized
    /\ msgs[id].conn = c /\ ~msgs[id].early
    /\ msgs[id].st = "dropped"
    /\ outbox[c] = <<>>

\* C26 as claimed: when the snapshot's fetch of the interview finds no
\* record, the snapshot builder sends no message to the connection,
\* neither dashboard:init nor error.
C26_AbsentSilent ==
  \A c \in Conns :
    snap[c].interview = Null =>
      /\ Count(outbox[c], "dashboard:init") = 0
      /\ DashboardErrors(c) = {}

\* the states the admitted connection starts from are states the service
\* reaches: with the interview there, and with the interview deleted
C26_StartReached == SnapshotStart /\ db["i1"].present
C26_StartReachedDeleted == SnapshotStart /\ ~db["i1"].present

\* C27 as claimed: once shutdown() has cleared the registry it stays
\* empty; no later event inserts a connection into a room.
C27_EmptyAfterShutdown == wss = "closed" => DOMAIN interviewRooms = {}

\* inbound message id is answered with response:candidate_details in this step
Responds(id) ==
  /\ msgs[id].st = "lk3"
  /\ msgs'[id].st = "done"
  /\ msgs'[id].res = "ok"
  /\ outbox'[msgs[id].conn] = Append(outbox[msgs[id].conn], Response(id, msgs[id].cand))

\* C28 as claimed: once the interview has been deleted after the admission,
\* a request is never answered with response:candidate_details.
C28_NoResponseOnceDeleted ==
  [][\A id \in DOMAIN msgs :
       Responds(id) => db[msgs[id].args.interviewId].present]_vars

\* the interview check of the lookup of inbound message id runs in this step
Authorizes(id) == msgs[id].st = "lk1" /\ msgs'[id].st # "lk1"

C28_Step ==
  \A id \in DOMAIN msgs :
    /\ Authorizes(id) =>
         LET c == msgs[id].conn
             i == msgs[id].args.interviewId
         IN /\ msgs[id].args.interviewerId = wsInterviewerId[c]
            /\ ~db[i].present \/ db[i].interviewerId # wsInterviewerId[c] =>
                 /\ msgs'[id].st = "done"
                 /\ msgs'[id].res \in {"NotFound", "Forbidden", "Error"}
            /\ msgs'[id].st = "done" =>
                 /\ msgs'[id].res # "ok"
                 /\ outbox'[c] = SendIfOpen(c, ErrDetails(id, msgs'[id].res))
            /\ msgs'[id].st # "done" =>
                 /\ msgs'[id].st = "lk2"
                 /\ outbox'[c] = outbox[c]
    /\ msgs[id].st # "lk3" => ~Responds(id)
    /\ msgs'[id].st = "lk3" => msgs[id].st \in {"lk2", "lk3"}
    /\ msgs'[id].st = "lk2" => msgs[id].st \in {"lk1", "lk2"}

C28_State ==
  /\ \A i \in Interviews, who \in Users, status \in Statuses :
       \/ ~db[i].present
       \/ db[i].interviewerId # who
       \/ status \in {"Scheduled", "Cancelled"}
       => InterviewCheck(findById(i, TRUE), status, who) # ""
  /\ \A id \in DOMAIN msgs :
       msgs[id].res # "ok" =>
         \A k \in Answers(msgs[id].conn, id) :
           outbox[msgs[id].conn][k].event = "error"

\* C28: authorization is evaluated anew by every request:candidate_details,
\* at the interview fetch that opens its lookup (line 419), with the
\* connection's bound identity: if at that fetch the interview is absent,
\* has another owner, or is Scheduled or Cancelled, the request ends there
\* with an error message (sent if the connection is open) and never gets a
\* response:candidate_details; a response comes only from a request that
\* passed the check.
C28_Reevaluated == []C28_State /\ [][C28_Step]_vars

\* a request made on an admitted connection after its interview was deleted
\* has been answered with the not-found error
C28_Witness ==
  \E id \in DOMAIN msgs :
    /\ listeners[msgs[id].conn]
    /\ msgs[id].kind = "request"
    /\ msgs[id].st = "done"
    /\ msgs[id].res = "NotFound"
    /\ ~db[msgs[id].args.interviewId].present
    /\ outbox[msgs[id].conn] # <<>>
    /\ outbox[msgs[id].conn][Len(outbox[msgs[id].conn])] = ErrDetails(id, "NotFound")

\* inbound message id is a request:candidate_details handled on an
\* admitted connection
Handled(id) ==
  /\ id \in DOMAIN msgs
  /\ msgs[id].kind = "request"
  /\ msgs[id].st # "dropped"
\* the lookup of inbound message id is pending
LookingUp(id) == id \in DOMAIN msgs /\ msgs[id].st \in {"lk1", "lk2", "lk3"}

C29_State ==
  \A id \in DOMAIN msgs :
    Handled(id) =>
      /\ Cardinality(Answers(msgs[id].conn, id)) <= 1
      /\ \A c \in Conns \ {msgs[id].conn} : Answers(c, id) = {}
      /\ LookingUp(id) => Answers(msgs[id].conn, id) = {}

C29_Step ==
  \A id \in DOMAIN msgs :
    LookingUp(id) /\ msgs'[id].st = "done" =>
      LET c == msgs[id].conn IN
        IF readyState[c] = "OPEN"
          THEN /\ Len(outbox'[c]) = Len(outbox[c]) + 1
               /\ Answers(c, id)' = {Len(outbox'[c])}
               /\ outbox'[c][Len(outbox'[c])].event \in
                    {"response:candidate_details", "error"}
          ELSE outbox'[c] = outbox[c]

C29_Live ==
  \A id \in MsgIds :
    LookingUp(id) ~>
      /\ id \in DOMAIN msgs
      /\ \/ Answers(msgs[id].conn, id) # {}
         \/ readyState[msgs[id].conn] # "OPEN"

\* C29: a request:candidate_details handled on an admitted connection gets
\* at most one outbound message, on its own connection; when its lookup
\* completes with the connection open it gets exactly one, a
\* response:candidate_details or an error; and while lookups complete
\* fairly, a request whose lookup is pending is eventually answered unless
\* its connection leaves the open state.
C29_OneAnswer == []C29_State /\ [][C29_Step]_vars /\ C29_Live

\* both requests of one open connection have been answered, one with the
\* details and one with an error, each once
C29_Witness ==
  /\ Len(msgs) = 2
  /\ \A id \in DOMAIN msgs :
       /\ Handled(id)
       /\ msgs[id].conn = 1
       /\ msgs[id].cand # Null
       /\ msgs[id].st = "done"
       /\ Cardinality(Answers(1, id)) = 1
  /\ readyState[1] = "OPEN"
  /\ Count(outbox[1], "response:candidate_details") = 1
  /\ Count(outbox[1], "error") >= 1

\* a message is put on the wire of connection c in this step
Sends(c) == outbox'[c] # outbox[c]

C30_Step ==
  \A c \in Conns :
    /\ Sends(c) =>
         /\ readyState[c] = "OPEN"
         /\ Len(outbox'[c]) = Len(outbox[c]) + 1
         /\ SubSeq(outbox'[c], 1, Len(outbox[c])) = outbox[c]
         /\ outbox'[c][Len(outbox'[c])].event \in
              {"dashboard:init", "response:candidate_details", "error"}
    /\ readyState[c] = "CLOSED" => readyState'[c] = "CLOSED"
    /\ readyState[c] = "CLOSING" => readyState'[c] \in {"CLOSING", "CLOSED"}

C30_State ==
  \A c \in Conns :
    readyState[c] = "CONNECTING" => outbox[c] = <<>>

\* C30: a message (dashboard:init, response:candidate_details or error) is
\* sent on a connection only while it is open; a connection that has started
\* closing never returns to the open state, so a snapshot or lookup that
\* completes after that sends nothing and nothing is sent after the close.
C30_OpenOnly == []C30_State /\ [][C30_Step]_vars

\* the snapshot and a lookup of a connection have both completed after the
\* connection closed, and nothing was sent on it
C30_Witness ==
  \E c \in Conns :
    /\ readyState[c] = "CLOSED"
    /\ pc[c] = "done"
    /\ "snapshot" \in steps[c]
    /\ snap[c].res = "built"
    /\ \E id \in DOMAIN msgs :
         /\ msgs[id].conn = c
         /\ msgs[id].kind = "request"
         /\ msgs[id].cand # Null
         /\ msgs[id].st = "done"
    /\ outbox[c] = <<>>

====
